---- MODULE Spec2Model ----
(***************************************************************************)
(* A model of setup.py, the build script of the fastText Python bindings.  *)
(*                                                                         *)
(* The script runs top to bottom: it reads the --coverage toggle from the  *)
(* argument list, lists the native sources, declares the extension and     *)
(* hands control to setuptools, which calls BuildExt.build_extensions.     *)
(* Python strings are TLA+ strings (TLC evaluates Len, SubSeq and \o on    *)
(* them); Python lists are sequences.  A Python list that is reachable     *)
(* under two names (BuildExt.c_opts[ct] and ext.extra_compile_args) is     *)
(* modelled by a reference, so that a mutation through one name is seen    *)
(* through the other.                                                      *)
(***************************************************************************)
EXTENDS Integers, Sequences, FiniteSets, TLC

VARIABLES
    pc,             \* position of the script: "coverage", "sources",
                    \* "ext_modules", "setup", "error"
    error,          \* name of the exception that ended the script, "" if none
    argv0,          \* the argument list the process was started with
    argv,           \* sys.argv
    coverage,       \* module-level flag, bound by lines 48-54
    src_dir,        \* the directory FASTTEXT_SRC: [exists, entries]
    fasttext_src_cc,\* module-level list, bound by lines 56-61
    ext_modules,    \* module-level list of Extension objects
    c_opts,         \* BuildExt.c_opts, the class-level dict of lists
    environ,        \* os.environ, restricted to the names the script sets
    sys_platform,   \* sys.platform
    mac_ver,        \* platform.mac_ver()[0]
    compiler,       \* self.compiler: [compiler_type, accepts]
    version,        \* self.distribution.get_version()
    tmp_files,      \* scratch files of has_flag that exist on disk
    probe_log,      \* the has_flag calls of the latest build_extensions
    runs,           \* number of calls of build_extensions
    builds          \* number of calls of build_ext.build_extensions

vars == <<pc, error, argv0, argv, coverage, src_dir, fasttext_src_cc,
          ext_modules, c_opts, environ, sys_platform, mac_ver, compiler,
          version, tmp_files, probe_log, runs, builds>>

(***************************************************************************)
(* Bounds of the model.                                                    *)
(***************************************************************************)
MaxArgs == 2        \* arguments after the script name
MaxRuns == 2        \* calls of build_extensions in one session

(***************************************************************************)
(* Python string and list primitives.                                      *)
(***************************************************************************)
StartsWith(s, p) == Len(s) >= Len(p) /\ SubSeq(s, 1, Len(p)) = p

\* str.endswith
EndsWith(s, p) == Len(s) >= Len(p) /\ SubSeq(s, Len(s) - Len(p) + 1, Len(s)) = p

\* The least i with SubSeq(s, i, i + Len(p) - 1) = p, or 0: str.find, 1-based.
RECURSIVE FindFrom(_, _, _)
FindFrom(s, p, i) ==
    IF i + Len(p) - 1 > Len(s) THEN 0
    ELSE IF SubSeq(s, i, i + Len(p) - 1) = p THEN i
    ELSE FindFrom(s, p, i + 1)

Find(s, p) == FindFrom(s, p, 1)

\* str.split(sep) for a non-empty separator.
RECURSIVE Split(_, _)
Split(s, sep) ==
    LET i == Find(s, sep)
    IN  IF i = 0 THEN <<s>>
        ELSE <<SubSeq(s, 1, i - 1)>> \o Split(SubSeq(s, i + Len(sep), Len(s)), sep)

\* sep.join(parts)
RECURSIVE Join(_, _)
Join(sep, parts) ==
    IF parts = <<>> THEN ""
    ELSE IF Len(parts) = 1 THEN parts[1]
    ELSE parts[1] \o sep \o Join(sep, Tail(parts))

\* template % value, for a template with one %s directive.
Format(template, value) ==
    LET i == Find(template, "%s")
    IN  SubSeq(template, 1, i - 1) \o value \o SubSeq(template, i + 2, Len(template))

\* list.index(x): the least index holding x, 0 when absent (ValueError).
RECURSIVE IndexFrom(_, _, _)
IndexFrom(list, x, i) ==
    IF i > Len(list) THEN 0
    ELSE IF list[i] = x THEN i
    ELSE IndexFrom(list, x, i + 1)

Index(list, x) == IndexFrom(list, x, 1)

\* del list[i]
DelAt(list, i) == SubSeq(list, 1, i - 1) \o SubSeq(list, i + 1, Len(list))

Elems(list) == {list[i] : i \in 1..Len(list)}

RECURSIVE StripLeadingZeros(_)
StripLeadingZeros(s) ==
    IF Len(s) > 1 /\ SubSeq(s, 1, 1) = "0"
    THEN StripLeadingZeros(SubSeq(s, 2, Len(s))) ELSE s

RECURSIVE StripTrailingZeros(_)
StripTrailingZeros(s) ==
    IF Len(s) > 1 /\ SubSeq(s, Len(s), Len(s)) = "0"
    THEN StripTrailingZeros(SubSeq(s, 1, Len(s) - 1)) ELSE s

\* str(float(s)) for a decimal literal s of digits with at most one point and
\* few enough digits to be printed positionally: the integer part without
\* leading zeros, the fraction without trailing zeros, "0" when there is none.
StrFloat(s) ==
    LET parts == Split(s, ".")
        frac  == IF Len(parts) > 1 /\ parts[2] # "" THEN parts[2] ELSE "0"
    IN  StripLeadingZeros(IF parts[1] = "" THEN "0" ELSE parts[1])
            \o "." \o StripTrailingZeros(frac)

(***************************************************************************)
(* Module-level constants of the script.                                   *)
(***************************************************************************)
FASTTEXT_SRC == "src"

extra_compile_args ==
    " -march=native -ffast-math -Wsuggest-final-methods"
    \o " -Walloc-zero -Wsuggest-override -Wodr -flto -ftree-loop-linear"
    \o " -floop-strip-mine -floop-block "

binding_source == "python/fastText/pybind/fasttext_pybind.cc"

\* all_flags of build_extensions
all_flags == <<"-stdlib=libc++", "-mmacosx-version-min=10.7">>

visibility_flags == <<"-fvisibility=hidden">>

\* The list that build_extensions adds to c_opts['unix'].
base_flags ==
    <<"-flto", "-march=native", "-ffast-math", "-Wsuggest-final-methods",
      "-Walloc-zero", "-Wsuggest-override", "-Wodr", "-ftree-loop-linear",
      "-floop-strip-mine", "-floop-block">>

\* BuildExt.c_opts as the class statement leaves it.
c_opts_initial == [msvc |-> <<"/EHsc">>, unix |-> <<>>]

(***************************************************************************)
(* The environment of a run.                                               *)
(***************************************************************************)
Arguments == {"--coverage", "build_ext"}

RECURSIVE SeqsUpTo(_, _)
SeqsUpTo(S, n) ==
    IF n = 0 THEN {<<>>}
    ELSE LET shorter == SeqsUpTo(S, n - 1)
         IN  shorter \cup {Append(q, x) : q \in shorter, x \in S}

ArgLists == {<<"setup.py">> \o q : q \in SeqsUpTo(Arguments, MaxArgs)}

\* os.listdir is defined for an existing directory only.
SourceDirs ==
    {[exists |-> FALSE, entries |-> <<>>],
     [exists |-> TRUE,  entries |-> <<>>],
     [exists |-> TRUE,  entries |-> <<"args.h", "cc", "README.md">>],
     [exists |-> TRUE,  entries |-> <<"b.cc", "readme.txt", "a.cc">>]}

Platforms == {"darwin", "linux", "win32"}

\* platform.mac_ver()[0]: a release on macOS, '' elsewhere.
MacVersions == {"10.14.6", "10.10.5"}

\* distutils compiler types; mingw32 is one that c_opts has no entry for.
CompilerTypes == {"unix", "msvc", "mingw32"}

\* What compiler.compile does with the scratch file: it returns, it raises
\* CompileError, or it raises something else.
\* A compiler answers a given flag set the same way
\* throughout a session: the scratch program is always the same.
Outcomes == {"accepted", "rejected", "crashed"}

ProbedFlagSets == {<<all_flags[1]>>, all_flags, visibility_flags}

Versions == {"0.8.22", "2.0.0-beta.1"}

(***************************************************************************)
(* Lines 48-54: the --coverage toggle.                                     *)
(***************************************************************************)
\* sys.argv after the try/except/else.
ArgvAfterCoverage(args) ==
    LET coverage_index == Index(args, "--coverage")
    IN  IF coverage_index = 0 THEN args ELSE DelAt(args, coverage_index)

CoverageOf(args) == Index(args, "--coverage") # 0

ParseCoverage ==
    /\ pc = "coverage"
    /\ argv' = ArgvAfterCoverage(argv)
    /\ coverage' = CoverageOf(argv)
    /\ pc' = "sources"
    /\ UNCHANGED <<error, argv0, src_dir, fasttext_src_cc, ext_modules, c_opts,
                   environ, sys_platform, mac_ver, compiler, version,
                   tmp_files, probe_log, runs, builds>>

(***************************************************************************)
(* Lines 56-61: the native sources.                                        *)
(***************************************************************************)
IsCc(x) == EndsWith(x, ".cc")

\* os.path.join(FASTTEXT_SRC, x)
PathSep == IF sys_platform = "win32" THEN "\\" ELSE "/"

JoinSrc(x) == FASTTEXT_SRC \o PathSep \o x

\* Line 57: list(filter(lambda x: x.endswith('.cc'), ...))
RECURSIVE FilterCc(_)
FilterCc(list) ==
    IF list = <<>> THEN <<>>
    ELSE (IF IsCc(Head(list)) THEN <<Head(list)>> ELSE <<>>) \o FilterCc(Tail(list))

\* Lines 59-61: list(map(lambda x: str(os.path.join(FASTTEXT_SRC, x)), ...))
MapJoinSrc(list) == [i \in 1..Len(list) |-> JoinSrc(list[i])]

SourcesOf(entries) == MapJoinSrc(FilterCc(entries))

ListSources ==
    /\ pc = "sources"
    /\ IF src_dir.exists
       THEN /\ fasttext_src_cc' = SourcesOf(src_dir.entries)
            /\ pc' = "ext_modules"
            /\ error' = error
       ELSE /\ fasttext_src_cc' = fasttext_src_cc
            /\ pc' = "error"
            /\ error' = "OSError"
    /\ UNCHANGED <<argv0, argv, coverage, src_dir, ext_modules, c_opts, environ,
                   sys_platform, mac_ver, compiler, version, tmp_files,
                   probe_log, runs, builds>>

(***************************************************************************)
(* Lines 67-84: the extension.  A list-valued attribute that may share its *)
(* list with BuildExt.c_opts is a reference: ref names the c_opts entry    *)
(* whose list it is, or is "own" and the list is own.                      *)
(***************************************************************************)
OwnList(list) == [ref |-> "own", own |-> list]

Deref(opts_dict, r) == IF r.ref = "own" THEN r.own ELSE opts_dict[r.ref]

\* ModeArgs with the coverage flags added to the release flags instead of
\* replacing them.
ModeArgsMerged(cov) ==
    "-O3 -funroll-loops -pthread -march=native"
    \o (IF cov THEN " -O0 -fno-inline -fprofile-arcs" ELSE "")
    \o extra_compile_args

\* The one string in the Extension's extra_compile_args.
ModeArgs(cov) ==
    (IF cov THEN "-O0 -fno-inline -fprofile-arcs -pthread -march=native"
            ELSE "-O3 -funroll-loops -pthread -march=native")
    \o extra_compile_args

MakeExtension(cov, sources) ==
    [name               |-> "fasttext_pybind",
     sources            |-> <<binding_source>> \o sources,
     language           |-> "c++",
     extra_compile_args |-> OwnList(<<ModeArgs(cov)>>),
     extra_link_args    |-> <<>>]

MakeExtModules ==
    /\ pc = "ext_modules"
    /\ ext_modules' = <<MakeExtension(coverage, fasttext_src_cc)>>
    /\ pc' = "setup"
    /\ UNCHANGED <<error, argv0, argv, coverage, src_dir, fasttext_src_cc,
                   c_opts, environ, sys_platform, mac_ver, compiler, version,
                   tmp_files, probe_log, runs, builds>>

(***************************************************************************)
(* Lines 89-100: has_flag.  name is the name tempfile gives the scratch    *)
(* file; the with statement creates it and removes it when the block is    *)
(* left, by return or by exception.                                        *)
(***************************************************************************)

\* has_flag with a scratch file that is removed only after a trial
\* compilation that returned.
has_flag_keeps_on_failure(comp, flags, files, name) ==
    LET created == files \cup {name}
        outcome == comp.accepts[flags]
    IN  [outcome |-> outcome,
         raised  |-> outcome = "crashed",
         result  |-> outcome = "accepted",
         files   |-> IF outcome = "accepted" THEN created \ {name} ELSE created]

has_flag(comp, flags, files, name) ==
    LET created == files \cup {name}
        outcome == comp.accepts[flags]
        closed  == created \ {name}
    IN  [outcome |-> outcome,
         raised  |-> outcome = "crashed",
         result  |-> outcome = "accepted",
         files   |-> closed]

\* Lines 103-107: cpp_flag returns before it probes anything.
cpp_flag == "-std=c++14"

(***************************************************************************)
(* Lines 125-165: build_extensions.  Its local state is a record:          *)
(*   c_opts, environ, files   what the call has made of the globals,       *)
(*   log                      the has_flag calls so far,                   *)
(*   opts, extra_link_args    the locals of these names,                   *)
(*   exc                      the exception being raised, "" if none.      *)
(***************************************************************************)
SetEnv(env, key, value) ==
    [n \in DOMAIN env \cup {key} |-> IF n = key THEN value ELSE env[n]]

Probe(st, flags) ==
    LET r == has_flag(compiler, flags, st.files, Len(st.log) + 1)
    IN  [st EXCEPT !.files = r.files,
                   !.log   = Append(@, [flags   |-> flags,
                                        outcome |-> r.outcome,
                                        result  |-> r.result,
                                        raised  |-> r.raised]),
                   !.exc   = IF r.raised THEN "OtherError" ELSE @]

Answer(st) == st.log[Len(st.log)].result

\* opts.append(x): opts may be one of the lists of c_opts.
AppendOpt(st, x) ==
    IF st.opts.ref = "own"
    THEN [st EXCEPT !.opts.own = Append(@, x)]
    ELSE [st EXCEPT !.c_opts[st.opts.ref] = Append(@, x)]

\* Line 127: float('.'.join(platform.mac_ver()[0].split('.')[:2])), as line
\* 128 prints it.
MacOsxVersion(release) ==
    LET parts == Split(release, ".")
        first == SubSeq(parts, 1, IF Len(parts) < 2 THEN Len(parts) ELSE 2)
    IN  StrFloat(Join(".", first))

\* DarwinStep without the final raise: it goes on when both probes fail.
DarwinStepFallThrough(st) ==
    LET s0 == [st EXCEPT !.environ =
                   SetEnv(@, "MACOSX_DEPLOYMENT_TARGET", MacOsxVersion(mac_ver))]
        s1 == Probe(s0, <<all_flags[1]>>)
        s2 == Probe(s1, all_flags)
    IN  IF s1.exc # "" THEN s1
        ELSE IF Answer(s1) THEN [s1 EXCEPT !.c_opts.unix = @ \o <<all_flags[1]>>]
        ELSE IF s2.exc # "" THEN s2
        ELSE IF Answer(s2) THEN [s2 EXCEPT !.c_opts.unix = @ \o all_flags]
        ELSE s2

\* DarwinStep that adds the whole of all_flags after the solo probe too.
DarwinStepAddsAll(st) ==
    LET s0 == [st EXCEPT !.environ =
                   SetEnv(@, "MACOSX_DEPLOYMENT_TARGET", MacOsxVersion(mac_ver))]
        s1 == Probe(s0, <<all_flags[1]>>)
        s2 == Probe(s1, all_flags)
    IN  IF s1.exc # "" THEN s1
        ELSE IF Answer(s1) THEN [s1 EXCEPT !.c_opts.unix = @ \o all_flags]
        ELSE IF s2.exc # "" THEN s2
        ELSE IF Answer(s2) THEN [s2 EXCEPT !.c_opts.unix = @ \o all_flags]
        ELSE [s2 EXCEPT !.exc = "RuntimeError"]

\* Lines 127-138, the body of the darwin branch.
DarwinStep(st) ==
    LET s0 == [st EXCEPT !.environ =
                   SetEnv(@, "MACOSX_DEPLOYMENT_TARGET", MacOsxVersion(mac_ver))]
        s1 == Probe(s0, <<all_flags[1]>>)
        s2 == Probe(s1, all_flags)
    IN  IF s1.exc # "" THEN s1
        ELSE IF Answer(s1) THEN [s1 EXCEPT !.c_opts.unix = @ \o <<all_flags[1]>>]
        ELSE IF s2.exc # "" THEN s2
        ELSE IF Answer(s2) THEN [s2 EXCEPT !.c_opts.unix = @ \o all_flags]
        ELSE [s2 EXCEPT !.exc = "RuntimeError"]

\* Lines 139-141: opts is the list of c_opts for the compiler type, or a new
\* list when there is none.
GetOpts(st) ==
    LET ct == compiler.compiler_type
    IN  [st EXCEPT !.opts = IF ct \in DOMAIN st.c_opts
                            THEN [ref |-> ct, own |-> <<>>]
                            ELSE OwnList(<<>>),
                   !.extra_link_args = <<>>]

\* AddBaseFlags that binds c_opts['unix'] to a new list (x = x + [...]), so
\* that opts keeps the list without the base flags.
AddBaseFlagsRebinding(st) ==
    [st EXCEPT !.opts = IF @.ref = "unix" THEN OwnList(st.c_opts.unix) ELSE @,
               !.c_opts.unix = @ \o base_flags]

\* Lines 142-146
AddBaseFlags(st) == [st EXCEPT !.c_opts.unix = @ \o base_flags]

\* Lines 148-151
AddCoverage(st) ==
    IF coverage
    THEN [AppendOpt(st, "--coverage") EXCEPT !.extra_link_args = Append(@, "--coverage")]
    ELSE st

\* VersionMacroUnix without the % operator.
VersionMacroUnixUnformatted(v) == "-DVERSION_INFO=\"%s\""

VersionMacroUnix(v) == Format("-DVERSION_INFO=\"%s\"", v)

VersionMacroMsvc(v) == Format("/DVERSION_INFO=\\\"%s\\\"", v)

\* Lines 153-161
FamilyStep(st) ==
    LET ct == compiler.compiler_type
        s1 == AppendOpt(st, VersionMacroUnix(version))
        s2 == AppendOpt(s1, cpp_flag)
        s3 == Probe(s2, visibility_flags)
    IN  IF ct = "unix"
        THEN IF s3.exc # "" THEN s3
             ELSE IF Answer(s3) THEN AppendOpt(s3, visibility_flags[1])
             ELSE s3
        ELSE IF ct = "msvc" THEN AppendOpt(st, VersionMacroMsvc(version))
        ELSE st

\* Lines 126-161
Resolve(st) ==
    LET a == IF sys_platform = "darwin" THEN DarwinStep(st) ELSE st
    IN  IF a.exc # "" THEN a
        ELSE FamilyStep(AddCoverage(AddBaseFlags(GetOpts(a))))

\* Lines 162-164
AssignFlags(exts, st) ==
    [i \in DOMAIN exts |->
        [exts[i] EXCEPT !.extra_compile_args = st.opts,
                        !.extra_link_args    = st.extra_link_args]]

BuildExtensions ==
    /\ pc = "setup"
    /\ runs < MaxRuns
    /\ LET st0 == [c_opts |-> c_opts, environ |-> environ, files |-> tmp_files,
                   log |-> <<>>, exc |-> "", opts |-> OwnList(<<>>),
                   extra_link_args |-> <<>>]
           r   == Resolve(st0)
       IN  /\ c_opts' = r.c_opts
           /\ environ' = r.environ
           /\ tmp_files' = r.files
           /\ probe_log' = r.log
           /\ runs' = runs + 1
           /\ IF r.exc = ""
              THEN /\ ext_modules' = AssignFlags(ext_modules, r)
                   /\ builds' = builds + 1
                   /\ pc' = pc
                   /\ error' = error
              ELSE /\ ext_modules' = ext_modules
                   /\ builds' = builds
                   /\ pc' = "error"
                   /\ error' = r.exc
    /\ UNCHANGED <<argv0, argv, coverage, src_dir, fasttext_src_cc,
                   sys_platform, mac_ver, compiler, version>>

(***************************************************************************)
(* The script.                                                             *)
(***************************************************************************)
Init ==
    /\ pc = "coverage"
    /\ error = ""
    /\ argv0 \in ArgLists
    /\ argv = argv0
    /\ coverage = FALSE
    /\ src_dir \in SourceDirs
    /\ fasttext_src_cc = <<>>
    /\ ext_modules = <<>>
    /\ c_opts = c_opts_initial
    /\ environ = [n \in {} |-> ""]
    /\ sys_platform \in Platforms
    /\ mac_ver \in (IF sys_platform = "darwin" THEN MacVersions ELSE {""})
    /\ compiler \in [compiler_type : CompilerTypes,
                     accepts : [ProbedFlagSets -> Outcomes]]
    /\ version \in Versions
    /\ tmp_files = {}
    /\ probe_log = <<>>
    /\ runs = 0
    /\ builds = 0

Next ==
    \/ ParseCoverage
    \/ ListSources
    \/ MakeExtModules
    \/ BuildExtensions

Spec == Init /\ [][Next]_vars

\* The attribute values of the extensions, with shared lists resolved.
ExtCompileArgs(i) == Deref(c_opts, ext_modules[i].extra_compile_args)

ExtLinkArgs(i) == ext_modules[i].extra_link_args

(***************************************************************************)
(* Vocabulary of the properties.                                           *)
(***************************************************************************)
Exts == DOMAIN ext_modules

\* build_extensions has run and its latest call returned.
Resolved == pc = "setup" /\ runs >= 1

\* The compiler accepts every flag set it can be asked about.
AcceptsAll == \A f \in ProbedFlagSets : compiler.accepts[f] = "accepted"

SoloProbe == <<"-stdlib=libc++">>

PairProbe == <<"-stdlib=libc++", "-mmacosx-version-min=10.7">>

BaseSet ==
    {"-flto", "-march=native", "-ffast-math", "-Wsuggest-final-methods",
     "-Walloc-zero", "-Wsuggest-override", "-Wodr", "-ftree-loop-linear",
     "-floop-strip-mine", "-floop-block"}

CoverageFlags == {"--coverage", "-fprofile-arcs", "-O0", "-fno-inline"}

ReleaseFlags == {"-O3", "-funroll-loops"}

\* The flags a command line made of the list's entries holds: each entry
\* split at blanks.
RECURSIVE Tokens(_)
Tokens(list) ==
    IF list = <<>> THEN {}
    ELSE (Elems(Split(Head(list), " ")) \ {""}) \cup Tokens(Tail(list))

IsVersionMacro(f) ==
    StartsWith(f, "-DVERSION_INFO=") \/ StartsWith(f, "/DVERSION_INFO=")

\* The string the macro of a -DNAME="value" or /DNAME=\"value\" flag expands to.
MacroString(f) ==
    LET d == SubSeq(f, Find(f, "=") + 1, Len(f))
    IN  IF StartsWith(d, "\\\"") /\ EndsWith(d, "\\\"") /\ Len(d) >= 4
        THEN SubSeq(d, 3, Len(d) - 2)
        ELSE IF StartsWith(d, "\"") /\ EndsWith(d, "\"") /\ Len(d) >= 2
        THEN SubSeq(d, 2, Len(d) - 1)
        ELSE d

IsTargetFlag(f) == StartsWith(f, "-mmacosx-version-min=")

TargetOf(f) == SubSeq(f, Find(f, "=") + 1, Len(f))

\* Every flag that build_extensions has probed or put in c_opts.
FlagsInUse ==
    UNION {Elems(probe_log[k].flags) : k \in DOMAIN probe_log}
        \cup Elems(c_opts.unix) \cup Elems(c_opts.msvc)

\* The list without its '--coverage' entries, the rest in order.
RECURSIVE WithoutCoverage(_)
WithoutCoverage(list) ==
    IF list = <<>> THEN <<>>
    ELSE (IF Head(list) = "--coverage" THEN <<>> ELSE <<Head(list)>>)
             \o WithoutCoverage(Tail(list))

(***************************************************************************)
(* C1: a second call of build_extensions that follows a call that          *)
(* returned, with the same compiler, OS, build mode and probe answers,     *)
(* leaves every extension with the compile-flag list and the link-flag     *)
(* list the first call assigned.                                           *)
(***************************************************************************)
C1_SecondRunSameFlags ==
    [][(Resolved /\ runs' = runs + 1 /\ pc' = "setup" /\ probe_log' = probe_log)
         => \A i \in Exts : /\ ExtCompileArgs(i)' = ExtCompileArgs(i)
                            /\ ExtLinkArgs(i)' = ExtLinkArgs(i)]_vars

(***************************************************************************)
(* C2, as claimed: whatever the compiler family, when the compiler accepts *)
(* every probed flag, the compile flags assigned to each extension hold    *)
(* every flag of the base set.                                             *)
(***************************************************************************)
C2_BaseForEveryFamily ==
    (Resolved /\ AcceptsAll)
        => \A i \in Exts : BaseSet \subseteq Elems(ExtCompileArgs(i))

(***************************************************************************)
(* C2, amended: for the unix compiler family, on every OS and in both      *)
(* build modes, when the compiler accepts every probed flag, the compile   *)
(* flags assigned to each extension hold every flag of the base set.       *)
(***************************************************************************)
C2_BaseForUnix ==
    (Resolved /\ AcceptsAll /\ compiler.compiler_type = "unix")
        => \A i \in Exts : BaseSet \subseteq Elems(ExtCompileArgs(i))

C2_Witness ==
    /\ Resolved
    /\ AcceptsAll
    /\ compiler.compiler_type = "unix"
    /\ sys_platform = "darwin"
    /\ coverage
    /\ BaseSet \subseteq Elems(ExtCompileArgs(1))

(***************************************************************************)
(* C3: once the toggle has been read, sys.argv holds no '--coverage', the  *)
(* build mode is coverage exactly when the initial list held '--coverage', *)
(* and the other arguments are kept in order.                              *)
(***************************************************************************)
C3_CoverageStripped ==
    pc # "coverage"
        => /\ "--coverage" \notin Elems(argv)
           /\ coverage = ("--coverage" \in Elems(argv0))
           /\ argv = WithoutCoverage(argv0)

(***************************************************************************)
(* C4, as claimed: whatever the compiler family, after a resolution that   *)
(* returned, each extension's compile flags hold a VERSION_INFO macro      *)
(* whose value is the package version.                                     *)
(***************************************************************************)
C4_VersionForEveryFamily ==
    Resolved
        => \A i \in Exts : \E k \in DOMAIN ExtCompileArgs(i) :
               /\ IsVersionMacro(ExtCompileArgs(i)[k])
               /\ MacroString(ExtCompileArgs(i)[k]) = version

(***************************************************************************)
(* C4, amended: for the unix and msvc compiler families, in both build     *)
(* modes, after a resolution that returned, each extension's compile flags *)
(* hold a VERSION_INFO macro, and every VERSION_INFO macro they hold has   *)
(* the package version as its value.                                       *)
(***************************************************************************)
C4_VersionForKnownFamilies ==
    (Resolved /\ compiler.compiler_type \in {"unix", "msvc"})
        => \A i \in Exts :
              /\ \E k \in DOMAIN ExtCompileArgs(i) :
                     IsVersionMacro(ExtCompileArgs(i)[k])
              /\ \A k \in DOMAIN ExtCompileArgs(i) :
                     IsVersionMacro(ExtCompileArgs(i)[k])
                         => MacroString(ExtCompileArgs(i)[k]) = version

C4_Witness ==
    /\ Resolved
    /\ compiler.compiler_type = "msvc"
    /\ version = "2.0.0-beta.1"
    /\ \E k \in DOMAIN ExtCompileArgs(1) :
           MacroString(ExtCompileArgs(1)[k]) = "2.0.0-beta.1"

(***************************************************************************)
(* C5: no flag list of an extension, the one given at construction or the  *)
(* one build_extensions assigns, holds both a coverage-mode flag and a     *)
(* release-mode optimization flag.                                         *)
(***************************************************************************)
C5_ModesExclusive ==
    \A i \in Exts :
        \/ Tokens(ExtCompileArgs(i)) \cap CoverageFlags = {}
        \/ Tokens(ExtCompileArgs(i)) \cap ReleaseFlags = {}

C5_Witness ==
    /\ pc = "setup"
    /\ runs = 0
    /\ coverage
    /\ {"-O0", "-fno-inline", "-fprofile-arcs"} \subseteq Tokens(ExtCompileArgs(1))

(***************************************************************************)
(* C6: on macOS, a call of build_extensions in which the compiler rejects  *)
(* the solo probe and the paired probe ends in RuntimeError, assigns no    *)
(* flag list to any extension, leaves c_opts alone and does not reach the  *)
(* external compile step.                                                  *)
(***************************************************************************)
C6_BothRejectedIsFatal ==
    [][(/\ sys_platform = "darwin"
        /\ runs' = runs + 1
        /\ compiler.accepts[SoloProbe] = "rejected"
        /\ compiler.accepts[PairProbe] = "rejected")
         => /\ pc' = "error"
            /\ error' = "RuntimeError"
            /\ ext_modules' = ext_modules
            /\ c_opts' = c_opts
            /\ builds' = builds]_vars

C6_Witness ==
    /\ sys_platform = "darwin"
    /\ runs = 1
    /\ Len(probe_log) = 2
    /\ probe_log[1].flags = SoloProbe /\ probe_log[1].outcome = "rejected"
    /\ probe_log[2].flags = PairProbe /\ probe_log[2].outcome = "rejected"
    /\ error = "RuntimeError"
    /\ builds = 0

(***************************************************************************)
(* C7: when the source directory holds no entry ending in '.cc', source    *)
(* assembly fails with NoSourcesFound and no source list is produced.      *)
(***************************************************************************)
C7_NoSourcesIsError ==
    (/\ pc \notin {"coverage", "sources"}
     /\ src_dir.exists
     /\ \A k \in DOMAIN src_dir.entries : ~EndsWith(src_dir.entries[k], ".cc"))
        => pc = "error" /\ error = "NoSourcesFound" /\ ext_modules = <<>>

(***************************************************************************)
(* C8: on macOS, the value of every -mmacosx-version-min flag that         *)
(* build_extensions uses is the major.minor version of the detected OS,    *)
(* and is the value of the environment variable MACOSX_DEPLOYMENT_TARGET.  *)
(***************************************************************************)
C8_TargetFromDetectedVersion ==
    (sys_platform = "darwin" /\ runs >= 1)
        => \A f \in FlagsInUse :
               IsTargetFlag(f)
                   => /\ TargetOf(f) = environ["MACOSX_DEPLOYMENT_TARGET"]
                      /\ TargetOf(f) = Join(".", SubSeq(Split(mac_ver, "."), 1, 2))

(***************************************************************************)
(* C9: after every call of has_flag, whatever the trial compilation did,   *)
(* its scratch file does not exist; a rejection by the compiler gives the  *)
(* result false and raises nothing.                                        *)
(***************************************************************************)
C9_ScratchFileRemoved ==
    /\ tmp_files = {}
    /\ \A k \in DOMAIN probe_log :
           probe_log[k].outcome = "rejected"
               => ~probe_log[k].result /\ ~probe_log[k].raised
    /\ error = "OtherError"
           => probe_log # <<>> /\ probe_log[Len(probe_log)].outcome = "crashed"

C9_Witness ==
    /\ Len(probe_log) = 2
    /\ probe_log[1].outcome = "rejected"
    /\ probe_log[2].outcome = "crashed"
    /\ error = "OtherError"
    /\ tmp_files = {}

(***************************************************************************)
(* C10: on macOS with a unix compiler, build_extensions probes             *)
(* -stdlib=libc++ alone first, and probes the pair second exactly when the *)
(* solo probe was rejected; when it returns, the compile flags of every    *)
(* extension hold both flags if the solo probe was rejected and the pair   *)
(* accepted, and -stdlib=libc++ without a deployment-target flag if the    *)
(* solo probe was accepted.                                                *)
(***************************************************************************)
C10_SoloThenPair ==
    (sys_platform = "darwin" /\ compiler.compiler_type = "unix" /\ runs >= 1)
        => /\ Len(probe_log) >= 1
           /\ probe_log[1].flags = SoloProbe
           /\ \A k \in DOMAIN probe_log :
                  probe_log[k].flags = PairProbe
                      => k = 2 /\ probe_log[1].outcome = "rejected"
           /\ probe_log[1].outcome = "rejected"
                  => Len(probe_log) >= 2 /\ probe_log[2].flags = PairProbe
           /\ (Resolved /\ probe_log[1].outcome = "rejected")
                  => \A i \in Exts :
                         {"-stdlib=libc++", "-mmacosx-version-min=10.7"}
                             \subseteq Elems(ExtCompileArgs(i))
           /\ (Resolved /\ probe_log[1].outcome = "accepted")
                  => \A i \in Exts :
                         /\ "-stdlib=libc++" \in Elems(ExtCompileArgs(i))
                         /\ \A f \in Elems(ExtCompileArgs(i)) : ~IsTargetFlag(f)

C10_Witness ==
    /\ sys_platform = "darwin"
    /\ compiler.compiler_type = "unix"
    /\ Resolved
    /\ probe_log[1].flags = SoloProbe /\ probe_log[1].outcome = "rejected"
    /\ probe_log[2].flags = PairProbe /\ probe_log[2].outcome = "accepted"
    /\ {"-stdlib=libc++", "-mmacosx-version-min=10.7"}
           \subseteq Elems(ExtCompileArgs(1))

====
